---- MODULE Spec2Model ----
(***************************************************************************)
(* A model of the CSCS ReFrame site configurations for uenv images         *)
(* (config/systems-uenv/pilatus-uenv.py, santis-uenv.py) and of the Check  *)
(* helper (checks/system/integration/utils.py).                            *)
(*                                                                         *)
(* Python strings that the code splits, indexes or tests with startswith   *)
(* are sequences of one-character strings; strings that are only compared  *)
(* or concatenated (class names, test names, stream names) are TLA+        *)
(* strings.  A Python dict is a function whose DOMAIN is its key set; a    *)
(* YAML value is a record tagged with its Python type.                     *)
(***************************************************************************)
EXTENDS Integers, Sequences, FiniteSets, TLC

VARIABLES
    \* ---- loading of a site configuration module ----
    site,                \* which configuration file is being loaded
    pc,                  \* position of the module-level code
    uenv,                \* os.environ.get('UENV', None)
    rfm_meta,            \* path of the metadata file
    uenv_file,           \* image part of the first image[:mount] pair
    image_mount,         \* mount point of the first pair
    image_path,          \* pathlib.Path(uenv_file)
    image_exists,        \* what image_path.exists() answered
    image_name,          \* image_path.stem
    meta_opened,         \* open(rfm_meta) has been attempted
    meta_readable,       \* what open()/read() of the metadata file did
    image_environments,  \* the loaded YAML document
    environ_names,       \* partition 'environs'
    actual_environs,     \* the 'environments' list being built
    loop_i,              \* index of the next metadata entry of the for loop
    site_configuration,  \* the resulting dictionary
    error,               \* the exception that ended the load
    warned,              \* santis printed its WARNING
    \* ---- the Check helper ----
    check_id,            \* Check.check_id, shared by all instances
    inst,                \* which Check instance is in use
    obj,                 \* its CLASS, CLASS_EXCLUDE, CLASS_INCLUDE, DEBUG
    SYSTEM,              \* self.SYSTEM of every instance constructed
    args,                \* the arguments the next call is made with
    ncalls,              \* number of calls of Check.__call__ made so far
    last,                \* what the most recent call did
    tests                \* the tests handed to make_test/simple_test

loadVars == <<site, pc, uenv, rfm_meta, uenv_file, image_mount, image_path,
              image_exists, image_name, meta_opened, meta_readable,
              image_environments, environ_names, actual_environs, loop_i,
              site_configuration, error, warned>>
checkVars == <<check_id, inst, obj, SYSTEM, args, ncalls, last, tests>>
vars == <<loadVars, checkVars>>

(***************************************************************************)
(* Bounds of the model.                                                    *)
(***************************************************************************)
MaxExtraPairs == 1      \* image[:mount] pairs following the first in UENV
MaxEnvs == 2            \* entries of the metadata file
MaxCalls == 2           \* calls of Check.__call__
MaxInstances == 2       \* Check instances constructed
MaxWhereLen == 3        \* characters of the 'where' argument

(***************************************************************************)
(* Python values.                                                          *)
(***************************************************************************)
None == [t |-> "None"]
Unbound == [t |-> "unbound"]          \* a name no statement has bound yet
Str(s) == [t |-> "str", s |-> s]
List(l) == [t |-> "list", l |-> l]
Dict(d) == [t |-> "dict", d |-> d]          \* a dict whose key order is immaterial
Doc(items) == [t |-> "doc", items |-> items] \* the YAML mapping, in file order

\* bool(v) is False
Falsy(v) == v = None \/ (v.t = "str" /\ v.s = <<>>)

\* dict.update, d[k] = x, del d[k]
Update(d, v) == [k \in (DOMAIN d) \cup (DOMAIN v) |-> IF k \in DOMAIN v THEN v[k] ELSE d[k]]
SetItem(d, k, x) == [j \in (DOMAIN d) \cup {k} |-> IF j = k THEN x ELSE d[j]]
DelItem(d, k) == [j \in (DOMAIN d) \ {k} |-> d[j]]
EmptyDict == [k \in {} |-> None]

\* str.split(sep) for a one-character separator: always at least one piece.
RECURSIVE SplitOn(_, _)
SplitOn(s, c) ==
    IF \A i \in 1..Len(s) : s[i] # c
    THEN <<s>>
    ELSE LET i == CHOOSE j \in 1..Len(s) :
                      s[j] = c /\ \A k \in 1..(j-1) : s[k] # c
         IN  <<SubSeq(s, 1, i-1)>> \o SplitOn(SubSeq(s, i+1, Len(s)), c)

\* str.startswith(prefix)
StartsWith(s, p) == Len(p) <= Len(s) /\ SubSeq(s, 1, Len(p)) = p

\* ','.join / ':'.join, used to write the UENV values the loader then parses.
RECURSIVE Join(_, _)
Join(parts, c) ==
    IF Len(parts) = 0 THEN <<>>
    ELSE IF Len(parts) = 1 THEN parts[1]
    ELSE parts[1] \o <<c>> \o Join(Tail(parts), c)

(***************************************************************************)
(* pathlib, on paths written without redundant separators.                 *)
(***************************************************************************)
Dot == <<".">>
PathOf(s) == IF s = <<>> THEN Dot ELSE s          \* Path('') is Path('.')

LastIndexOf(s, c) ==
    IF \E i \in 1..Len(s) : s[i] = c
    THEN CHOOSE i \in 1..Len(s) : s[i] = c /\ \A k \in (i+1)..Len(s) : s[k] # c
    ELSE 0

PathName(p) ==
    IF p = Dot THEN <<>>
    ELSE SubSeq(p, LastIndexOf(p, "/") + 1, Len(p))

\* PurePath.stem: the name without its last suffix; a leading or a trailing
\* dot starts no suffix.
PathStem(p) ==
    LET name == PathName(p)
        i == LastIndexOf(name, ".")
    IN  IF 1 < i /\ i < Len(name) THEN SubSeq(name, 1, i-1) ELSE name

PathParent(p) ==
    LET i == LastIndexOf(p, "/")
    IN  IF i = 0 THEN Dot
        ELSE IF i = 1 THEN <<"/">>
        ELSE SubSeq(p, 1, i-1)

PathJoin(dir, name) ==
    IF dir = Dot THEN name
    ELSE IF dir = <<"/">> THEN dir \o name
    ELSE dir \o <<"/">> \o name

YamlSuffix == <<".", "y", "a", "m", "l">>
DefaultMount == <<"/", "u", "s", "e", "r", "-", "e", "n", "v", "i", "r", "o",
                  "n", "m", "e", "n", "t">>

(***************************************************************************)
(* The inputs of a load: the environment variables, the file system's      *)
(* answers and the content of the metadata file.                           *)
(***************************************************************************)
Sites == {"pilatus", "santis"}
SiteName(st) ==
    IF st = "pilatus" THEN <<"p", "i", "l", "a", "t", "u", "s">>
    ELSE <<"s", "a", "n", "t", "i", "s">>

Images == { <<>>, <<"a", ".", "q">>, <<"/", "d", "/", "a", ".", "q">> }
Mounts == { <<"/", "m">>, <<>> }
FirstPairs == Images \cup { Join(<<i, m>>, ":") : i \in Images, m \in Mounts }
ExtraPairs == { <<"b">> }
ExtraLists == UNION { [1..n -> ExtraPairs] : n \in 0..MaxExtraPairs }
UenvValues ==
    {None} \cup { Str(Join(<<p>> \o x, ",")) : p \in FirstPairs, x \in ExtraLists }
MetaEnvValues == { None, Str(<<>>), Str(<<"/", "r">>) }

Keys == { <<"g">>, <<"h">>, <<"j">> }
ActScriptM == Str(<<"/", "m", "/", "e">>)
ActScriptU == Str(DefaultMount \o <<"/", "e">>)
ActCommands == List(<<Str(<<"c">>)>>)
OtherName == Str(<<"z">>)
EntryDicts ==
    { EmptyDict }
    \cup { "activation" :> a : a \in {ActScriptM, ActScriptU, ActCommands, Dict(EmptyDict)} }
    \cup { ("activation" :> a) @@ ("name" :> OtherName) : a \in {ActScriptM, ActCommands} }
\* A key written with no value loads as the empty string under BaseLoader.
EntryValues == { Dict(d) : d \in EntryDicts } \cup { Str(<<>>) }
KeyLists ==
    UNION { { ks \in [1..n -> Keys] : \A i, j \in 1..n : i # j => ks[i] # ks[j] }
            : n \in 0..MaxEnvs }
\* What yaml.load returns: None for an empty file, else the mapping.
Documents ==
    {None} \cup
    UNION { { Doc([i \in 1..Len(ks) |-> [k |-> ks[i], v |-> vs[i]]])
              : vs \in [1..Len(ks) -> EntryValues] } : ks \in KeyLists }

(***************************************************************************)
(* Loading a site configuration: the module-level code, statement by       *)
(* statement.                                                              *)
(***************************************************************************)
Raise(e) == pc' = "raised" /\ error' = e

\* pilatus-uenv.py 18: `if uenv is None`; santis-uenv.py 18: `if not uenv`
UenvMissing(st, u) == IF st = "pilatus" THEN u = None ELSE Falsy(u)

ReadEnv ==
    /\ pc = "start"
    /\ \E u \in UenvValues, r \in MetaEnvValues :
         /\ uenv' = u
         /\ IF site = "santis" THEN rfm_meta' = r ELSE rfm_meta' = rfm_meta
         /\ IF UenvMissing(site, u)
            THEN Raise("ConfigError")
            ELSE pc' = "parse" /\ error' = error
    /\ UNCHANGED <<site, uenv_file, image_mount, image_path, image_exists,
                   image_name, meta_opened, meta_readable, image_environments,
                   environ_names, actual_environs, loop_i, site_configuration,
                   warned>>
    /\ UNCHANGED checkVars

\* uenv.split(',')[0].split(':'): the image, and the mount point when given.
FirstPairParts(u) == SplitOn(SplitOn(u, ",")[1], ":")
MountOf(parts) == IF Len(parts) > 1 THEN parts[2] ELSE DefaultMount

ParseUenv ==
    /\ pc = "parse"
    /\ LET parts == FirstPairParts(uenv.s)
       IN  /\ uenv_file' = Str(parts[1])
           /\ image_mount' = Str(MountOf(parts))
    /\ pc' = "image"
    /\ UNCHANGED <<site, uenv, rfm_meta, image_path, image_exists, image_name,
                   meta_opened, meta_readable, image_environments,
                   environ_names, actual_environs, loop_i, site_configuration,
                   error, warned>>
    /\ UNCHANGED checkVars

\* CheckImage without the existence test of lines 32-33 / 34-35.
CheckImage_no_exists_test ==
    /\ pc = "image"
    /\ image_path' = Str(PathOf(uenv_file.s))
    /\ \E ex \in BOOLEAN :
         /\ image_path'.s = Dot => ex
         /\ image_exists' = IF ex THEN "exists" ELSE "missing"
    /\ image_name' = Str(PathStem(image_path'.s))
    /\ pc' = "meta"
    /\ UNCHANGED <<site, uenv, rfm_meta, uenv_file, image_mount, meta_opened,
                   meta_readable, image_environments, environ_names,
                   actual_environs, loop_i, site_configuration, error, warned>>
    /\ UNCHANGED checkVars

CheckImage ==
    /\ pc = "image"
    /\ image_path' = Str(PathOf(uenv_file.s))
    /\ \E ex \in BOOLEAN :
         /\ image_path'.s = Dot => ex      \* the working directory exists
         /\ image_exists' = IF ex THEN "exists" ELSE "missing"
         /\ IF ~ex
            THEN Raise("ConfigError") /\ image_name' = image_name
            ELSE /\ image_name' = Str(PathStem(image_path'.s))
                 /\ pc' = "meta"
                 /\ error' = error
    /\ UNCHANGED <<site, uenv, rfm_meta, uenv_file, image_mount, meta_opened,
                   meta_readable, image_environments, environ_names,
                   actual_environs, loop_i, site_configuration, warned>>
    /\ UNCHANGED checkVars

\* The metadata file: <image stem>.yaml beside the image; santis takes
\* UENV_REFRAME_META when it is set and not empty.
MetaPath(st, given, path, name) ==
    IF st = "santis" /\ ~Falsy(given)
    THEN given
    ELSE Str(PathJoin(PathParent(path), name \o YamlSuffix))

LoadMeta ==
    /\ pc = "meta"
    /\ rfm_meta' = MetaPath(site, rfm_meta, image_path.s, image_name.s)
    /\ meta_opened' = TRUE
    /\ \E ok \in BOOLEAN :
         /\ meta_readable' = IF ok THEN "read" ELSE "OSError"
         /\ IF ok
            THEN \E doc \in Documents :
                   /\ image_environments' = doc
                   /\ pc' = "environs"
                   /\ UNCHANGED <<error, warned>>
            ELSE IF site = "pilatus"
            THEN Raise("ConfigError")
                 /\ UNCHANGED <<image_environments, warned>>
            ELSE /\ image_environments' = Doc(<<>>)
                 /\ warned' = TRUE
                 /\ pc' = "environs"
                 /\ error' = error
    /\ UNCHANGED <<site, uenv, uenv_file, image_mount, image_path,
                   image_exists, image_name, environ_names, actual_environs,
                   loop_i, site_configuration>>
    /\ UNCHANGED checkVars

Builtin == <<"b", "u", "i", "l", "t", "i", "n">>
EnvName(name, k) == name \o <<"_">> \o k

\* [f'{image_name}_{e}' for e in environs] or [f'{image_name}_builtin']
EnvironNames(name, doc) ==
    IF Len(doc.items) > 0
    THEN [i \in 1..Len(doc.items) |-> Str(EnvName(name, doc.items[i].k))]
    ELSE <<Str(EnvName(name, Builtin))>>

BuildPartitions ==
    /\ pc = "environs"
    /\ IF image_environments = None
       THEN Raise("AttributeError") /\ environ_names' = environ_names
       ELSE /\ environ_names' = List(EnvironNames(image_name.s, image_environments))
            /\ pc' = "if_envs"
            /\ error' = error
    /\ UNCHANGED <<site, uenv, rfm_meta, uenv_file, image_mount, image_path,
                   image_exists, image_name, meta_opened, meta_readable,
                   image_environments, actual_environs, loop_i,
                   site_configuration, warned>>
    /\ UNCHANGED checkVars

\* `if image_environments: actual_environs = []`
InitEnvs ==
    /\ pc = "if_envs"
    /\ actual_environs' = IF Len(image_environments.items) > 0
                          THEN List(<<>>) ELSE actual_environs
    /\ loop_i' = 1
    /\ pc' = "loop"
    /\ UNCHANGED <<site, uenv, rfm_meta, uenv_file, image_mount, image_path,
                   image_exists, image_name, meta_opened, meta_readable,
                   image_environments, environ_names, site_configuration,
                   error, warned>>
    /\ UNCHANGED checkVars

Source == <<"s", "o", "u", "r", "c", "e", " ">>

\* What the activation field of an entry makes of the loop body:
\* "ok", or the exception it raises.
\* pilatus-uenv.py 101-118
ActivationPilatus(v, mount) ==
    IF v.t # "dict" THEN "TypeError"              \* ''['activation']
    ELSE IF "activation" \notin DOMAIN v.d THEN "KeyError"
    ELSE LET a == v.d["activation"]
         IN  IF a.t = "str"
             THEN IF StartsWith(a.s, mount) THEN "ok" ELSE "ConfigError"
             ELSE IF a.t = "list" THEN "ok"
             ELSE "ConfigError"

\* santis-uenv.py 110-116
ActivationSantis(v, mount) ==
    IF v.t # "dict" THEN "TypeError"
    ELSE IF "activation" \notin DOMAIN v.d THEN "KeyError"
    ELSE LET a == v.d["activation"]
         IN  IF a.t = "str"
             THEN IF StartsWith(a.s, mount) THEN "ok" ELSE "ConfigError"
             ELSE "AttributeError"                \* no startswith

ActivationOutcome(st, v, mount) ==
    IF st = "pilatus" THEN ActivationPilatus(v, mount)
    ELSE ActivationSantis(v, mount)

PrepareCmds(a) ==
    IF a.t = "str" THEN List(<<Str(Source \o a.s)>>) ELSE a

\* MakeEnv with the name assigned before env.update(v), so that a 'name'
\* of the metadata entry survives.
MakeEnv_name_before_update(st, name, k, v) ==
    LET env0 == ("target_systems" :> List(<<Str(SiteName(st))>>))
                @@ ("name" :> Str(EnvName(name, k)))
        env1 == Update(env0, v.d)
        env2 == SetItem(env1, "prepare_cmds", PrepareCmds(v.d["activation"]))
    IN  Dict(DelItem(env2, "activation"))

\* The environment entry the loop body appends for key k with value v.
MakeEnv(st, name, k, v) ==
    LET env0 == "target_systems" :> List(<<Str(SiteName(st))>>)
        env1 == Update(env0, v.d)
        env2 == SetItem(env1, "prepare_cmds", PrepareCmds(v.d["activation"]))
        env3 == SetItem(env2, "name", Str(EnvName(name, k)))
    IN  Dict(DelItem(env3, "activation"))

LoopIter ==
    /\ pc = "loop"
    /\ loop_i <= Len(image_environments.items)
    /\ LET item == image_environments.items[loop_i]
           outcome == ActivationOutcome(site, item.v, image_mount.s)
       IN  IF outcome = "ok"
           THEN /\ actual_environs' =
                     List(Append(actual_environs.l,
                                 MakeEnv(site, image_name.s, item.k, item.v)))
                /\ loop_i' = loop_i + 1
                /\ UNCHANGED <<pc, error>>
           ELSE /\ Raise(outcome)
                /\ UNCHANGED <<actual_environs, loop_i>>
    /\ UNCHANGED <<site, uenv, rfm_meta, uenv_file, image_mount, image_path,
                   image_exists, image_name, meta_opened, meta_readable,
                   image_environments, environ_names, site_configuration,
                   warned>>
    /\ UNCHANGED checkVars

LoopDone ==
    /\ pc = "loop"
    /\ loop_i > Len(image_environments.items)
    /\ pc' = "site"
    /\ UNCHANGED <<site, uenv, rfm_meta, uenv_file, image_mount, image_path,
                   image_exists, image_name, meta_opened, meta_readable,
                   image_environments, environ_names, actual_environs, loop_i,
                   site_configuration, error, warned>>
    /\ UNCHANGED checkVars

\* '--uenv-file=F --uenv-mount=M' (pilatus), '--uenv=F:M' (santis)
UenvAccess(st, file, mount) ==
    IF st = "pilatus"
    THEN <<"--uenv-file=">> \o file \o <<" --uenv-mount=">> \o mount
    ELSE <<"--uenv=">> \o file \o <<":">> \o mount

\* The site_configuration dictionary: the parts computed from the inputs.
BuildSite ==
    /\ pc = "site"
    /\ IF actual_environs = Unbound
       THEN Raise("NameError") /\ UNCHANGED site_configuration
       ELSE /\ site_configuration' =
                 [t |-> "site",
                  name |-> Str(SiteName(site)),
                  environs |-> environ_names,
                  access |-> Str(UenvAccess(site, uenv_file.s, image_mount.s)),
                  environments |-> actual_environs]
            /\ pc' = "done"
            /\ error' = error
    /\ UNCHANGED <<site, uenv, rfm_meta, uenv_file, image_mount, image_path,
                   image_exists, image_name, meta_opened, meta_readable,
                   image_environments, environ_names, actual_environs, loop_i,
                   warned>>
    /\ UNCHANGED checkVars

\* No Check call is made while a configuration loads.
CheckIdle ==
    /\ check_id = 0
    /\ inst = 0
    /\ obj = None
    /\ SYSTEM = <<>>
    /\ args = None
    /\ ncalls = 0
    /\ last = None
    /\ tests = <<>>

LoadInit ==
    /\ site \in Sites
    /\ pc = "start"
    /\ uenv = Unbound
    /\ rfm_meta = Unbound
    /\ uenv_file = Unbound
    /\ image_mount = Unbound
    /\ image_path = Unbound
    /\ image_exists = "unchecked"
    /\ image_name = Unbound
    /\ meta_opened = FALSE
    /\ meta_readable = "unread"
    /\ image_environments = Unbound
    /\ environ_names = Unbound
    /\ actual_environs = Unbound
    /\ loop_i = 0
    /\ site_configuration = Unbound
    /\ error = "none"
    /\ warned = FALSE
    /\ CheckIdle

LoadNext ==
    \/ ReadEnv
    \/ ParseUenv
    \/ CheckImage
    \/ LoadMeta
    \/ BuildPartitions
    \/ InitEnvs
    \/ LoopIter
    \/ LoopDone
    \/ BuildSite

LoadSpec == LoadInit /\ [][LoadNext]_vars

(***************************************************************************)
(* The Check helper.  One instance is in use at a time: constructing a new *)
(* one replaces it.  The attributes of the instance in use can be set to   *)
(* any value between calls, so the calls made this way are those of any    *)
(* number of instances called in any order.  An instance that was replaced *)
(* is still read by the hooks of the tests it created, for its SYSTEM.     *)
(***************************************************************************)
ClassNames == {"", "a", "b"}
FilterLists == { <<>>, <<"a">>, <<"b">>, <<"*">>, <<"a", "b">>, <<"a", "*">>,
                 <<"b", "*">>, <<"a", "b", "*">> }
SystemNames == {"sysA", "sysB"}
Regexes == {"r1", "r2"}
Locations == {"stdout", "stderr", "stdin"}
\* What 'expected' and 'not_expected' are given as: nothing, a regex, or a
\* pair [regex, location].
ArgValues ==
    {None} \cup { Str(r) : r \in Regexes }
    \cup { List(<<x, Str(l)>>) : x \in {None} \cup { Str(r) : r \in Regexes },
                                 l \in Locations }
WhereChars == {"+", "-", "a", " "}
Wheres == UNION { [1..n -> WhereChars] : n \in 0..MaxWhereLen }
DefaultArgs == [cmd |-> "cmd", expected |-> None, not_expected |-> None,
                where |-> <<>>]

In(x, l) == \E i \in 1..Len(l) : l[i] = x

\* Check.__init__
NewObject == [CLASS |-> "", CLASS_EXCLUDE |-> <<>>, CLASS_INCLUDE |-> <<>>,
              DEBUG |-> FALSE]

New ==
    /\ inst < MaxInstances
    /\ inst' = inst + 1
    /\ obj' = NewObject
    /\ SYSTEM' = Append(SYSTEM, None)
    /\ UNCHANGED <<check_id, args, ncalls, last, tests>>
    /\ UNCHANGED loadVars

SetCLASS ==
    /\ inst > 0
    /\ \E c \in ClassNames : obj' = [obj EXCEPT !.CLASS = c]
    /\ UNCHANGED <<check_id, inst, SYSTEM, args, ncalls, last, tests>>
    /\ UNCHANGED loadVars

SetCLASS_EXCLUDE ==
    /\ inst > 0
    /\ \E l \in FilterLists : obj' = [obj EXCEPT !.CLASS_EXCLUDE = l]
    /\ UNCHANGED <<check_id, inst, SYSTEM, args, ncalls, last, tests>>
    /\ UNCHANGED loadVars

SetCLASS_INCLUDE ==
    /\ inst > 0
    /\ \E l \in FilterLists : obj' = [obj EXCEPT !.CLASS_INCLUDE = l]
    /\ UNCHANGED <<check_id, inst, SYSTEM, args, ncalls, last, tests>>
    /\ UNCHANGED loadVars

SetDEBUG ==
    /\ inst > 0
    /\ \E d \in BOOLEAN : obj' = [obj EXCEPT !.DEBUG = d]
    /\ UNCHANGED <<check_id, inst, SYSTEM, args, ncalls, last, tests>>
    /\ UNCHANGED loadVars

SetSYSTEM ==
    /\ inst > 0
    /\ \E y \in SystemNames : SYSTEM' = [SYSTEM EXCEPT ![inst] = Str(y)]
    /\ UNCHANGED <<check_id, inst, obj, args, ncalls, last, tests>>
    /\ UNCHANGED loadVars

\* The counter moved only for a call that passes the filters.
NextCheckId_after_filter(id, passes) == IF passes THEN id + 1 ELSE id

\* utils.py 57: the counter moves before the filters are looked at.
NextCheckId(id, passes) == id + 1

\* utils.py 66-76: TRUE when the call goes on past the filters.
PassesFilter(class, exclude0, include0) ==
    LET some == exclude0 # <<>> \/ include0 # <<>>
        exclude == IF some /\ exclude0 = <<>> THEN <<"*">> ELSE exclude0
        include == IF some /\ include0 = <<>> THEN <<"*">> ELSE include0
    IN  IF ~In("*", exclude) THEN ~In(class, exclude)
        ELSE IF ~In("*", include) THEN In(class, include)
        ELSE TRUE

\* utils.py 83-86
SignedWhere(where) ==
    IF where = <<>> THEN <<"*">>
    ELSE IF where[1] \notin {"-", "+"} THEN <<"+">> \o where
    ELSE where

\* str.split() with no argument: the runs of characters that are not
\* whitespace.
IsSpace(c) == c \in {" "}
RECURSIVE SplitWS(_)
SplitWS(s) ==
    IF s = <<>> THEN <<>>
    ELSE IF IsSpace(s[1]) THEN SplitWS(Tail(s))
    ELSE LET n == IF \E j \in 1..Len(s) : IsSpace(s[j])
                  THEN (CHOOSE j \in 1..Len(s) :
                           IsSpace(s[j]) /\ \A k \in 1..(j-1) : ~IsSpace(s[k])) - 1
                  ELSE Len(s)
         IN  <<SubSeq(s, 1, n)>> \o SplitWS(SubSeq(s, n + 1, Len(s)))

\* format(n, '04'): decimal, zero-padded to at least four characters.
Digit(d) ==
    CASE d = 0 -> "0" [] d = 1 -> "1" [] d = 2 -> "2" [] d = 3 -> "3"
      [] d = 4 -> "4" [] d = 5 -> "5" [] d = 6 -> "6" [] d = 7 -> "7"
      [] d = 8 -> "8" [] d = 9 -> "9"
RECURSIVE Decimal(_)
Decimal(n) == IF n < 10 THEN Digit(n) ELSE Decimal(n \div 10) \o Digit(n % 10)
RECURSIVE ZeroPad(_, _)
ZeroPad(str, width) == IF Len(str) >= width THEN str ELSE ZeroPad("0" \o str, width)
NameWidth == 4
\* utils.py 59-61, 92
CheckName(id, class) ==
    "Check_" \o ZeroPad(Decimal(id), NameWidth)
             \o (IF class # "" THEN "_" \o class ELSE "")

\* The attributes make_test gives the test class (utils.py 154-170); arg
\* keeps the arguments of the call as given.
NewTest(name, a, valid_systems, owner) ==
    [name |-> name, cmd |-> a.cmd, expected |-> a.expected,
     not_expected |-> a.not_expected, valid_systems |-> valid_systems,
     valid_prog_environs |-> <<"builtin">>, time_limit |-> "2m",
     executable |-> "", owner |-> owner, arg |-> a,
     phase |-> "registered", out |-> [stdout |-> {}, stderr |-> {}],
     searches |-> <<>>]

\* Check.__call__
Call ==
    /\ inst > 0
    /\ check_id < MaxCalls
    /\ ncalls' = ncalls + 1
    /\ LET passes == PassesFilter(obj.CLASS, obj.CLASS_EXCLUDE, obj.CLASS_INCLUDE)
           id == NextCheckId(check_id, passes)
           name == CheckName(id, obj.CLASS)
           valid_systems == SplitWS(SignedWhere(args.where))
       IN  /\ check_id' = id
           /\ IF ~passes
              THEN /\ last' = [n |-> id, outcome |-> "filtered", name |-> ""]
                   /\ tests' = tests
              ELSE IF obj.DEBUG
              THEN /\ last' = [n |-> id, outcome |-> "printed", name |-> name]
                   /\ tests' = tests
              ELSE /\ last' = [n |-> id, outcome |-> "registered", name |-> name]
                   /\ tests' = Append(tests, NewTest(name, args, valid_systems, inst))
    /\ UNCHANGED <<inst, obj, SYSTEM, args>>
    /\ UNCHANGED loadVars

\* utils.py 138-139: a value that is not a list is searched for in stdout.
Located_ignoring_given(x) ==
    IF x.t = "list" THEN List(<<x.l[1], Str("stdout")>>)
    ELSE List(<<x, Str("stdout")>>)

Located(x) == IF x.t = "list" THEN x ELSE List(<<x, Str("stdout")>>)

\* The hooks that run after the setup stage, in the order they were
\* given: set_command_options (134-142), then check_system (145-148).
\* skip_if ends the test; a later hook does not run.
SetupHooks(i) ==
    /\ tests[i].phase = "registered"
    /\ \E current_system \in SystemNames :
         LET t == tests[i]
             e == Located(t.expected)
             ne == Located(t.not_expected)
             skip == \/ e.l[2].s \notin {"stdout", "stderr"}
                     \/ ne.l[2].s \notin {"stdout", "stderr"}
                     \/ Str(current_system) # SYSTEM[t.owner]
         IN  tests' = [tests EXCEPT ![i] =
                         [t EXCEPT !.executable = t.cmd,
                                   !.expected = e,
                                   !.not_expected = ne,
                                   !.phase = IF skip THEN "skipped" ELSE "ready"]]
    /\ UNCHANGED <<check_id, inst, obj, SYSTEM, args, ncalls, last>>
    /\ UNCHANGED loadVars

\* The framework runs the command: which regexes match in which stream.
RunJob(i) ==
    /\ tests[i].phase = "ready"
    /\ \E o \in [stdout : SUBSET Regexes, stderr : SUBSET Regexes] :
         tests' = [tests EXCEPT ![i] = [@ EXCEPT !.out = o, !.phase = "ran"]]
    /\ UNCHANGED <<check_id, inst, obj, SYSTEM, args, ncalls, last>>
    /\ UNCHANGED loadVars

\* validate (116-132), evaluated by the framework's sanity stage.  `a and b`
\* evaluates a; when a fails, b is never evaluated.
Searches(t) ==
    LET e == t.expected
        ne == t.not_expected
        sa == IF e.l[1] # None
              THEN <<[fn |-> "assert_found", regex |-> e.l[1].s, in |-> e.l[2].s]>>
              ELSE <<>>
        a == e.l[1] = None \/ e.l[1].s \in t.out[e.l[2].s]
        sb == IF a /\ ne.l[1] # None
              THEN <<[fn |-> "assert_not_found", regex |-> ne.l[1].s, in |-> ne.l[2].s]>>
              ELSE <<>>
    IN  sa \o sb

SearchHolds(x, out) ==
    IF x.fn = "assert_found" THEN x.regex \in out[x.in]
    ELSE x.regex \notin out[x.in]

Validate(i) ==
    /\ tests[i].phase = "ran"
    /\ LET t == tests[i]
           done == Searches(t)
           ok == \A j \in 1..Len(done) : SearchHolds(done[j], t.out)
       IN  tests' = [tests EXCEPT ![i] =
                       [t EXCEPT !.searches = done,
                                 !.phase = IF ok THEN "passed" ELSE "failed"]]
    /\ UNCHANGED <<check_id, inst, obj, SYSTEM, args, ncalls, last>>
    /\ UNCHANGED loadVars

\* No configuration loads while checks are declared.
LoadIdle ==
    /\ site = "pilatus"
    /\ pc = "idle"
    /\ uenv = Unbound
    /\ rfm_meta = Unbound
    /\ uenv_file = Unbound
    /\ image_mount = Unbound
    /\ image_path = Unbound
    /\ image_exists = "unchecked"
    /\ image_name = Unbound
    /\ meta_opened = FALSE
    /\ meta_readable = "unread"
    /\ image_environments = Unbound
    /\ environ_names = Unbound
    /\ actual_environs = Unbound
    /\ loop_i = 0
    /\ site_configuration = Unbound
    /\ error = "none"
    /\ warned = FALSE

CheckStart ==
    /\ check_id = 0
    /\ inst = 0
    /\ obj = None
    /\ SYSTEM = <<>>
    /\ ncalls = 0
    /\ last = None
    /\ tests = <<>>

\* Calls under every setting of CLASS, the filters and DEBUG.
FilterInit == LoadIdle /\ CheckStart /\ args = DefaultArgs
FilterNext ==
    \/ New
    \/ SetCLASS
    \/ SetCLASS_EXCLUDE
    \/ SetCLASS_INCLUDE
    \/ SetDEBUG
    \/ Call
FilterSpec == FilterInit /\ [][FilterNext]_vars

\* Calls with every 'where'.
WhereInit ==
    /\ LoadIdle
    /\ CheckStart
    /\ \E w \in Wheres : args = [DefaultArgs EXCEPT !.where = w]
WhereNext ==
    \/ New
    \/ SetDEBUG
    \/ Call
WhereSpec == WhereInit /\ [][WhereNext]_vars

\* One test with every 'expected' and 'not_expected', from its declaration
\* to the result of its sanity function.
SanityInit ==
    /\ LoadIdle
    /\ CheckStart
    /\ \E e \in ArgValues, ne \in ArgValues :
         args = [DefaultArgs EXCEPT !.expected = e, !.not_expected = ne]
SanityNext ==
    \/ New
    \/ SetSYSTEM
    \/ tests = <<>> /\ Call
    \/ \E i \in 1..Len(tests) : SetupHooks(i)
    \/ \E i \in 1..Len(tests) : RunJob(i)
    \/ \E i \in 1..Len(tests) : Validate(i)
SanitySpec == SanityInit /\ [][SanityNext]_vars

(***************************************************************************)
(* Properties of loading a site configuration.                             *)
(***************************************************************************)
HasChar(s, c) == \E i \in 1..Len(s) : s[i] = c

\* uenv_file is the image of the first comma-separated image[:mount] pair:
\* the longest prefix of UENV free of ',' and ':'.
IsFirstImage(u, f) ==
    /\ StartsWith(u, f)
    /\ ~HasChar(f, ",") /\ ~HasChar(f, ":")
    /\ Len(u) = Len(f) \/ u[Len(f) + 1] \in {",", ":"}

\* C1: a load in which UENV is unset, or in which the image named by the
\* first image[:mount] pair of UENV was found not to exist, has ended in a
\* ConfigError, has produced no site_configuration and has not opened the
\* metadata file.
C1_MissingImageRaises ==
    /\ uenv_file # Unbound =>
          /\ IsFirstImage(uenv.s, uenv_file.s)
          /\ image_exists # "unchecked" =>
                image_path.s = (IF uenv_file.s = <<>> THEN Dot ELSE uenv_file.s)
    /\ pc # "start" /\ (uenv = None \/ image_exists = "missing") =>
          /\ pc = "raised"
          /\ error = "ConfigError"
          /\ site_configuration = Unbound
          /\ ~meta_opened

C1_Witness ==
    /\ pc = "raised"
    /\ image_exists = "missing"
    /\ uenv = Str(<<"/", "d", "/", "a", ".", "q", ":", "/", "m", ",", "b">>)
    /\ image_path = Str(<<"/", "d", "/", "a", ".", "q">>)

\* C2: once the metadata file could not be opened or read, the load has
\* ended in a ConfigError.
C2_UnreadableMetaRaises ==
    meta_readable = "OSError" => pc = "raised" /\ error = "ConfigError"

\* An entry whose activation field is absent, a string that does not start
\* with the mount point, or neither a string nor a list.
Malformed(v, mount) ==
    \/ v.t # "dict"
    \/ "activation" \notin DOMAIN v.d
    \/ /\ v.d["activation"].t = "str"
       /\ ~StartsWith(v.d["activation"].s, mount)
    \/ v.d["activation"].t \notin {"str", "list"}

InLoop == loop_i >= 1 /\ loop_i <= Len(image_environments.items)

\* C3: the loop raises only on a malformed activation field and then a
\* ConfigError, with no site_configuration; every entry it has passed was
\* well-formed, and its environment has prepare_cmds ['source <activation>']
\* for a script, the list itself for a list of commands, and no
\* 'activation' key.
C3_ActivationHandling ==
    /\ pc = "raised" /\ InLoop =>
          /\ Malformed(image_environments.items[loop_i].v, image_mount.s)
          /\ error = "ConfigError"
          /\ site_configuration = Unbound
    /\ pc \in {"loop", "site", "done"} =>
          \A i \in 1..(loop_i - 1) :
             LET v == image_environments.items[i].v
                 env == actual_environs.l[i].d
             IN  /\ ~Malformed(v, image_mount.s)
                 /\ "activation" \notin DOMAIN env
                 /\ v.d["activation"].t = "str" =>
                       env["prepare_cmds"] =
                          List(<<Str(Source \o v.d["activation"].s)>>)
                 /\ v.d["activation"].t = "list" =>
                       env["prepare_cmds"] = v.d["activation"]

\* image_name is the stem of the image file: its last path component
\* without the last suffix.
IsStem(p, n) ==
    \/ p = Dot /\ n = <<>>
    \/ \E i \in 0..Len(p) :
         LET name == SubSeq(p, i + 1, Len(p))
             rest == SubSeq(name, Len(n) + 1, Len(name))
         IN  /\ i = 0 \/ p[i] = "/"
             /\ ~HasChar(name, "/")
             /\ StartsWith(name, n)
             /\ \/ rest = <<>> /\ (~HasChar(n, ".") \/ n[1] = "." \/ n[Len(n)] = ".")
                \/ /\ Len(rest) > 1 /\ rest[1] = "." /\ n # <<>>
                   /\ ~HasChar(Tail(rest), ".")

\* C4: in a loaded site configuration the partition's 'environs' and the
\* names of 'environments' are the same list: <image stem>_<key> for each
\* key of the metadata file, in file order, whatever 'name' an entry holds.
C4_EnvironNames ==
    pc = "done" =>
       LET names == site_configuration.environs.l
           envs == site_configuration.environments.l
           items == image_environments.items
       IN  /\ IsStem(image_path.s, image_name.s)
           /\ Len(names) = Len(items)
           /\ Len(envs) = Len(items)
           /\ \A i \in 1..Len(items) :
                 /\ names[i] = Str(image_name.s \o <<"_">> \o items[i].k)
                 /\ envs[i].d["name"] = names[i]

C4_Witness ==
    /\ pc = "done"
    /\ image_path = Str(<<"/", "d", "/", "a", ".", "q">>)
    /\ Len(image_environments.items) = 2
    /\ "name" \in DOMAIN image_environments.items[2].v.d
    /\ site_configuration.environs =
          List(<<Str(<<"a", "_", "h">>), Str(<<"a", "_", "g">>)>>)

(***************************************************************************)
(* Properties of the Check helper.                                         *)
(***************************************************************************)
\* The location and the regex an 'expected' or 'not_expected' argument
\* stands for.
GivenLocation(x) == IF x.t = "list" THEN x.l[2].s ELSE "stdout"
GivenRegex(x) == IF x.t = "list" THEN x.l[1] ELSE x
BadLocation(x) == GivenLocation(x) \notin {"stdout", "stderr"}
SearchesOf(t, fn) ==
    { j \in 1..Len(t.searches) : t.searches[j].fn = fn }

\* C5: a test whose 'expected' or 'not_expected' names a location other
\* than stdout and stderr is skipped by its setup hook and its sanity
\* function searches nothing; otherwise the sanity function searches the
\* expected regex in the stream given (stdout when none is), searches the
\* not_expected regex only in the stream given for it, searches nothing for
\* an argument that is None, and passes exactly when the expected regex is
\* found and the not_expected regex is not.
C5_SanityLocations ==
    \A i \in 1..Len(tests) :
       LET t == tests[i]
           e == t.arg.expected
           ne == t.arg.not_expected
       IN  /\ t.phase # "registered" /\ (BadLocation(e) \/ BadLocation(ne)) =>
                 t.phase = "skipped"
           /\ t.phase \in {"registered", "skipped", "ready", "ran"} =>
                 t.searches = <<>>
           /\ t.phase \in {"passed", "failed"} =>
                 /\ \A j \in SearchesOf(t, "assert_found") :
                       /\ GivenRegex(e) = Str(t.searches[j].regex)
                       /\ t.searches[j].in = GivenLocation(e)
                 /\ \A j \in SearchesOf(t, "assert_not_found") :
                       /\ GivenRegex(ne) = Str(t.searches[j].regex)
                       /\ t.searches[j].in = GivenLocation(ne)
                 /\ Cardinality(SearchesOf(t, "assert_found")) =
                       (IF GivenRegex(e) = None THEN 0 ELSE 1)
                 /\ GivenRegex(ne) = None => SearchesOf(t, "assert_not_found") = {}
                 /\ t.phase = "passed" <=>
                       /\ \/ GivenRegex(e) = None
                          \/ GivenRegex(e).s \in t.out[GivenLocation(e)]
                       /\ \/ GivenRegex(ne) = None
                          \/ GivenRegex(ne).s \notin t.out[GivenLocation(ne)]

C5_Witness ==
    /\ Len(tests) = 1
    /\ tests[1].arg.expected = List(<<Str("r1"), Str("stderr")>>)
    /\ tests[1].arg.not_expected = Str("r1")
    /\ tests[1].out = [stdout |-> {"r2"}, stderr |-> {"r1"}]
    /\ tests[1].phase = "passed"
    /\ Len(tests[1].searches) = 2

\* 'Check_<4-digit number>[_<CLASS>]'
FourDigitName(k, class) ==
    "Check_" \o Digit(k \div 1000) \o Digit((k \div 100) % 10)
             \o Digit((k \div 10) % 10) \o Digit(k % 10)
             \o (IF class = "" THEN "" ELSE "_" \o class)

\* C6: Check.check_id is the number of calls made so far, whatever each
\* call did; the k-th call is numbered k and, unless filtered out, named
\* Check_<k as 4 digits>[_<CLASS>]; the registered tests are numbered in
\* increasing order and no two have the same name.
C6_Numbering ==
    /\ check_id = ncalls
    /\ last # None =>
          /\ last.n = ncalls
          /\ last.outcome # "filtered" =>
                \E c \in ClassNames : last.name = FourDigitName(ncalls, c)
    /\ \A i \in 1..Len(tests) :
          \E k \in 1..ncalls, c \in ClassNames :
             /\ tests[i].name = FourDigitName(k, c)
             /\ \A j \in 1..(i-1) :
                   \E m \in 1..(k-1), d \in ClassNames :
                      tests[j].name = FourDigitName(m, d)
    /\ \A i, j \in 1..Len(tests) : i # j => tests[i].name # tests[j].name

C6_Witness ==
    /\ inst = 2
    /\ check_id = 2
    /\ Len(tests) = 1
    /\ tests[1].name = "Check_0002_a"
    /\ last.outcome = "registered"

IsCall == ncalls' = ncalls + 1

\* C7: a call that registers or prints a check has a CLASS that is not
\* listed in CLASS_EXCLUDE and, when CLASS_EXCLUDE contains '*', is listed
\* in CLASS_INCLUDE.
C7_ExclusionFilter ==
    [][IsCall /\ last'.outcome # "filtered" =>
          /\ ~In(obj.CLASS, obj.CLASS_EXCLUDE)
          /\ In("*", obj.CLASS_EXCLUDE) => In(obj.CLASS, obj.CLASS_INCLUDE)]_vars

\* C8: with a CLASS_INCLUDE that is not empty and holds no '*', a call
\* that registers or prints a check has a CLASS listed in CLASS_INCLUDE;
\* with both lists empty no call is filtered out.
C8_InclusionFilter ==
    [][IsCall =>
          /\ last'.outcome # "filtered" /\ obj.CLASS_INCLUDE # <<>>
                /\ ~In("*", obj.CLASS_INCLUDE)
                => In(obj.CLASS, obj.CLASS_INCLUDE)
          /\ obj.CLASS_INCLUDE = <<>> /\ obj.CLASS_EXCLUDE = <<>>
                => last'.outcome # "filtered"]_vars

\* A feature with its sign: '+' is put before a token that has none.
Signed(token) == IF token[1] \in {"+", "-"} THEN token ELSE <<"+">> \o token

\* C9: valid_systems of a registered test is ['*'] for an empty 'where',
\* and otherwise the whitespace-separated tokens of 'where', each with its
\* sign.
C9_ValidSystems ==
    \A i \in 1..Len(tests) :
       LET where == tests[i].arg.where
           tokens == SplitWS(where)
       IN  tests[i].valid_systems =
              IF where = <<>> THEN << <<"*">> >>
              ELSE [j \in 1..Len(tokens) |-> Signed(tokens[j])]

====
